---- MODULE Spec2Model ----
(***************************************************************************)
(* Model of the Academic Manager gateway (src/backend/main.py): a FastAPI  *)
(* application that forwards requests to the upstream WhatsApp service.    *)
(* One caller request is handled at a time; a handler is split at each     *)
(* `await client.get/post`, where the upstream reply is an input.          *)
(***************************************************************************)
EXTENDS Integers, Sequences, FiniteSets, TLC

VARIABLES
    WHATSAPP_SERVICE_URL,   \* module global, main.py:34
    WHATSAPP_API_KEY,       \* module global, main.py:38
    pc,                     \* position of the handler of the current request
    request,                \* the caller's request being handled
    calls,                  \* upstream calls issued for the current request
    replies,                \* upstream replies received for the current request
    data,                   \* handler local `data` of get_group_messages
    response,               \* outcome handed to the framework
    last,                   \* history: the previous request and what came of it
    others,                 \* the other in-flight requests, suspended at an await
    sessions,               \* the uses of get_db: generator position and what it did
    metadata,               \* tables registered on each declarative Base
    tables,                 \* tables existing in the database
    init_result             \* how the last init_db call ended

vars == <<WHATSAPP_SERVICE_URL, WHATSAPP_API_KEY, pc, request, calls, replies,
          data, response, last, others, sessions, metadata, tables, init_result>>

\* no request has been remembered
NoLast == [handler |-> "none"]

\* the state of utils/database.py and models/user.py
dbvars == <<sessions, metadata, tables, init_result>>

----------------------------------------------------------------------------
(* Bounds of the model *)

MaxMsgs == 2
MaxGroups == 2
\* most uses of get_db
MaxSessions == 2

----------------------------------------------------------------------------
(* JSON values, tagged by their JSON type *)

JNull == [t |-> "null"]
JStr(s) == [t |-> "str", s |-> s]
JInt(n) == [t |-> "int", n |-> n]
JBool(b) == [t |-> "bool", b |-> b]
JList(l) == [t |-> "list", l |-> l]
JObj(o) == [t |-> "obj", o |-> o]
\* a body that is not JSON at all
Malformed(raw) == [t |-> "malformed", raw |-> raw]

IsDict(v) == v.t = "obj"
\* dict.get(key, default) and dict.get(key)
get(v, key, default) == IF key \in DOMAIN v.o THEN v.o[key] ELSE default
has(v, key) == key \in DOMAIN v.o

\* Python truthiness of a JSON value
truthy(v) ==
    CASE v.t = "null" -> FALSE
      [] v.t = "str"  -> v.s # ""
      [] v.t = "int"  -> v.n # 0
      [] v.t = "bool" -> v.b
      [] v.t = "list" -> Len(v.l) > 0
      [] v.t = "obj"  -> DOMAIN v.o # {}

\* Optional[str] header value: None when the header is absent
None == "<None>"
\* the test written `is not None`: an empty header value counts as present
present_not_none(authorization) == authorization # None

\* `if authorization_header:` / `not authorization`
present(authorization) == authorization # None /\ authorization # ""

\* the elements of `master` at the positions S, in the order of `master`
Pick(master, S) ==
    [i \in 1..Cardinality(S) |->
        master[CHOOSE k \in S : Cardinality({j \in S : j <= k}) = i]]
\* the subsequences of `master` of at most n elements
SubSeqsUpTo(master, n) ==
    { Pick(master, S) : S \in { T \in SUBSET (1..Len(master)) : Cardinality(T) <= n } }

----------------------------------------------------------------------------
(* Parts of an error detail string; a detail is the sequence of its parts *)

Lit(s) == [lit |-> s]
\* response.text: the raw characters of the body
text(body) == [text |-> body]
\* str(e)
str(exc) == [exc |-> exc]
Contains(detail, part) == \E i \in 1..Len(detail) : detail[i] = part

HTTPException(status_code, detail) ==
    [kind |-> "HTTPException", status_code |-> status_code, detail |-> detail]
Ok(body) == [kind |-> "ok", status_code |-> 200, body |-> body]
NoResponse == [kind |-> "none"]
NoData == [t |-> "unset"]
NoBody == [t |-> "nobody"]

----------------------------------------------------------------------------
(* Inputs: what callers send and what the upstream may answer *)

\* values of the inbound Authorization header
AuthValues == {None, "", "Bearer user-token"}
\* values of the WHATSAPP_API_KEY environment variable ("" when unset)
ApiKeyValues == {"", "admin-key", "other-key"}
DefaultServiceUrl == "https://whatsapp-academic-manager-production.up.railway.app"
GroupIds == {"g1", "g9"}
Jids == {"201@s.whatsapp.net"}
DefaultLimit == 50
\* datetime.now(timezone.utc).isoformat() at the time of the call
Clock == {"now-1", "now-2"}

\* caller bodies of the POST routes; request.json() raises on the malformed
\* ones: text that is not JSON, and no body at all
CallerBodies ==
    { JObj([to |-> JStr("g1"), message |-> JStr("hi")]),
      JObj([jid |-> JStr("201@s.whatsapp.net")]),
      Malformed("caller-garbage"),
      Malformed("") }

\* exceptions httpx raises when no response is obtained
TransportErrors == {"ConnectError", "ReadTimeout"}
ErrorStatusCodes == {201, 401, 404, 500}
ErrorBodies ==
    { JObj([error |-> JStr("not found")]), Malformed("<html>Bad Gateway</html>") }

Raise(exc) == [kind |-> "raise", exc |-> exc]
Response(status_code, body) ==
    [kind |-> "response", status_code |-> status_code, body |-> body]

\* replies to a call whose 200 bodies are Bodies
RepliesWith(Bodies) ==
    { Raise(e) : e \in TransportErrors }
    \cup { Response(200, b) : b \in Bodies \cup {Malformed("<html>Bad Gateway</html>")} }
    \cup { Response(c, b) : c \in ErrorStatusCodes, b \in ErrorBodies }

\* GET /api/status payloads: every subset of the four fields
StatusFieldValue ==
    [success |-> JBool(FALSE), status |-> JStr("connected"),
     phone |-> JStr("+201000000000"), timestamp |-> JStr("2025-01-01T00:00:00Z")]
StatusBodies ==
    { JObj([k \in S |-> StatusFieldValue[k]]) : S \in SUBSET DOMAIN StatusFieldValue }
    \cup { JList(<<>>) }

\* GET /api/groups payloads: the upstream returns some of these records
GroupRecords ==
    << JObj([id |-> JStr("g2"), name |-> JStr("Chemistry"), participants |-> JInt(7)]),
       JObj([id |-> JStr("g1"), name |-> JStr("Physics 101"), participants |-> JInt(10)]),
       JObj([id |-> JStr("g1"), name |-> JStr("Physics (old)"), participants |-> JInt(3)]),
       JObj([id |-> JStr("g1"), participants |-> JInt(1)]),
       JObj([name |-> JStr("Orphan"), participants |-> JInt(2)]),
       JObj([id |-> JStr("g3"), name |-> JStr("Biology")]) >>
GroupsBodies ==
    { JObj([groups |-> JList(l)]) : l \in SubSeqsUpTo(GroupRecords, MaxGroups) }
    \cup { JObj([groups |-> JList(l), success |-> JBool(FALSE), count |-> JInt(99)]) :
             l \in SubSeqsUpTo(GroupRecords, MaxGroups) }
    \cup { JObj([success |-> JBool(TRUE)]), JObj([groups |-> JNull]), JList(<<>>) }

\* GET /api/messages/{group_id} payloads: the upstream returns some of these records
MessageRecords ==
    << JObj([id |-> JStr("m1"), from |-> JStr("alice"), content |-> JStr("hello"),
             timestamp |-> JInt(1700000000)]),
       JObj([id |-> JStr("m2"), from_user |-> JStr("bob"), content |-> JStr("hi"),
             timestamp |-> JStr("1700000060")]),
       JObj([id |-> JStr("m3"), from |-> JStr("carol"), content |-> JStr("no ts")]),
       JObj([id |-> JStr("m4"), from |-> JStr("dave"), content |-> JStr("null ts"),
             timestamp |-> JNull]),
       JObj([id |-> JStr("m5"), from |-> JStr("erin"), content |-> JStr("empty ts"),
             timestamp |-> JStr("")]),
       JObj([id |-> JStr("m6"), from |-> JStr("frank"), content |-> JStr("text ts"),
             timestamp |-> JStr("yesterday")]),
       JObj([from |-> JStr("gina"), timestamp |-> JInt(0)]),
       JObj([id |-> JStr("m8"), content |-> JStr("no sender"),
             timestamp |-> JInt(1700000120)]),
       JStr("not-an-object") >>
MessagesBodies ==
    { JObj([messages |-> JList(l)]) : l \in SubSeqsUpTo(MessageRecords, MaxMsgs) }
    \cup { JObj([messages |-> JList(l), success |-> JBool(FALSE), count |-> JInt(99)]) :
             l \in SubSeqsUpTo(MessageRecords, MaxMsgs) }
    \cup { JObj([success |-> JBool(TRUE)]), JObj([messages |-> JNull]), JList(<<>>) }

\* bodies of the pass-through routes' upstream replies
ForwardBodies ==
    { JObj([success |-> JBool(TRUE), messageId |-> JStr("ABCD")]), JList(<<>>) }

----------------------------------------------------------------------------
(* Credential resolution, main.py:78-99 *)

ContentType == "Content-Type" :> "application/json"

\* get_headers with the two branches swapped: the API key wins over the caller's token
get_headers_key_first(authorization_header) ==
    IF WHATSAPP_API_KEY # ""
    THEN ContentType @@ ("x-api-key" :> WHATSAPP_API_KEY)
    ELSE IF present(authorization_header)
         THEN ContentType @@ ("Authorization" :> authorization_header)
         ELSE ContentType

\* get_headers sending the API key as a bearer token instead of x-api-key
get_headers_key_as_bearer(authorization_header) ==
    IF present(authorization_header)
    THEN ContentType @@ ("Authorization" :> authorization_header)
    ELSE IF WHATSAPP_API_KEY # ""
         THEN ContentType @@ ("Authorization" :> WHATSAPP_API_KEY)
         ELSE ContentType

\* get_headers with `elif` written as `if`: the key is added next to the token
get_headers_both(authorization_header) ==
    (IF WHATSAPP_API_KEY # "" THEN "x-api-key" :> WHATSAPP_API_KEY ELSE ContentType)
    @@ (IF present(authorization_header)
        THEN "Authorization" :> authorization_header ELSE ContentType)
    @@ ContentType

\* get_headers spending the API key on the first request only
get_headers_key_once(authorization_header) ==
    IF present(authorization_header)
    THEN ContentType @@ ("Authorization" :> authorization_header)
    ELSE IF WHATSAPP_API_KEY # "" /\ last = NoLast
    THEN ContentType @@ ("x-api-key" :> WHATSAPP_API_KEY)
    ELSE ContentType

\* get_headers on one client object shared by all requests: the headers set
\* for a request still in flight are sent with the next request too
get_headers_shared_client(authorization_header) ==
    LET in_flight == { i \in 1..Len(others) : others[i].calls # <<>> }
    IN IF in_flight # {}
       THEN others[CHOOSE i \in in_flight : TRUE].calls[1].headers
       ELSE IF present(authorization_header)
       THEN ContentType @@ ("Authorization" :> authorization_header)
       ELSE IF WHATSAPP_API_KEY # ""
       THEN ContentType @@ ("x-api-key" :> WHATSAPP_API_KEY)
       ELSE ContentType

get_headers(authorization_header) ==
    IF present(authorization_header)
    THEN ContentType @@ ("Authorization" :> authorization_header)
    ELSE IF WHATSAPP_API_KEY # ""
         THEN ContentType @@ ("x-api-key" :> WHATSAPP_API_KEY)
         ELSE ContentType

\* the pre-flight check left out, as in the pass-through handlers
auth_missing_unchecked(authorization) == FALSE

\* the pre-flight check of the groups and messages handlers, main.py:206, 283
auth_missing(authorization) == ~present(authorization) /\ WHATSAPP_API_KEY = ""

AuthRequired ==
    HTTPException(401, <<Lit("Authentication required. Please login first.")>>)

----------------------------------------------------------------------------
(* httpx and pydantic behaviour the handlers rely on *)

\* httpx.Response.is_success, which raise_for_status() tests
is_success(status_code) == status_code \div 100 = 2

\* int(x) of the strings of the model that are decimal numerals
IntOfStr == "1700000060" :> 1700000060
\* int(v) succeeds (no ValueError / TypeError)
can_int(v) ==
    \/ v.t = "int"
    \/ v.t = "str" /\ v.s \in DOMAIN IntOfStr
int(v) == IF v.t = "int" THEN v.n ELSE IntOfStr[v.s]

\* datetime.fromtimestamp(n).strftime("%Y-%m-%d %H:%M:%S"): local time of epoch n
strftime(n) == [fmt |-> "%Y-%m-%d %H:%M:%S", fromtimestamp |-> n]
Unknown == [literal |-> "Unknown"]

\* pydantic field validation: `str`, `int`, `bool` fields
valid_str(v) == v.t = "str"
valid_int(v) == can_int(v)
valid_bool(v) == v.t = "bool"

----------------------------------------------------------------------------
(* Outcome of the pass-through handlers after the upstream call,            *)
(* main.py:388-394 and every handler from send_message to                  *)
(* get_business_profile                                                     *)

\* forward_outcome wrapping the upstream body in an envelope of its own
forward_outcome_wrapped(reply) ==
    IF reply.kind = "raise"
    THEN HTTPException(503, <<str(reply.exc)>>)
    ELSE IF ~is_success(reply.status_code)
    THEN HTTPException(reply.status_code, <<text(reply.body)>>)
    ELSE IF reply.body.t = "malformed"
    THEN HTTPException(503, <<str("JSONDecodeError")>>)
    ELSE Ok(JObj([success |-> JBool(TRUE), data |-> reply.body]))

\* forward_outcome with `except httpx.HTTPStatusError` as the only handler:
\* any other exception leaves the handler
forward_outcome_uncaught(reply) ==
    IF reply.kind = "raise"
    THEN [kind |-> "escaped", exc |-> reply.exc]
    ELSE IF ~is_success(reply.status_code)
    THEN HTTPException(reply.status_code, <<text(reply.body)>>)
    ELSE IF reply.body.t = "malformed"
    THEN [kind |-> "escaped", exc |-> "JSONDecodeError"]
    ELSE Ok(reply.body)

forward_outcome(reply) ==
    IF reply.kind = "raise"
    THEN HTTPException(503, <<str(reply.exc)>>)
    ELSE IF ~is_success(reply.status_code)          \* raise_for_status()
    THEN HTTPException(reply.status_code, <<text(reply.body)>>)
    ELSE IF reply.body.t = "malformed"              \* response.json()
    THEN HTTPException(503, <<str("JSONDecodeError")>>)
    ELSE Ok(reply.body)

----------------------------------------------------------------------------
(* Status transformer, main.py:171-193 *)

Unavailable(exc) ==
    HTTPException(503, <<Lit("WhatsApp service unavailable: "), str(exc)>>)
ServiceError(reply) ==
    HTTPException(reply.status_code,
                  <<Lit("WhatsApp service error: "), text(reply.body)>>)

WhatsAppStatus(success, status, phone, timestamp) ==
    [success |-> success, status |-> status, phone |-> phone, timestamp |-> timestamp]
valid_WhatsAppStatus(m) ==
    /\ valid_bool(m.success)
    /\ valid_str(m.status)
    /\ (m.phone = JNull \/ valid_str(m.phone))
    /\ valid_str(m.timestamp)

\* status_outcome stamping every answer with the gateway's own clock
status_outcome_stamped(reply, now) ==
    IF reply.kind = "raise" THEN Unavailable(reply.exc)
    ELSE IF ~is_success(reply.status_code) THEN ServiceError(reply)
    ELSE IF reply.body.t = "malformed" THEN Unavailable("JSONDecodeError")
    ELSE IF ~IsDict(reply.body) THEN Unavailable("AttributeError")
    ELSE LET d == reply.body
             m == WhatsAppStatus(get(d, "success", JBool(TRUE)),
                                 get(d, "status", JStr("unknown")),
                                 get(d, "phone", JNull),
                                 JStr(now))
         IN IF valid_WhatsAppStatus(m) THEN Ok(m) ELSE Unavailable("ValidationError")

\* status_outcome reading the status field as data["status"]: no default
status_outcome_strict(reply, now) ==
    IF reply.kind = "raise" THEN Unavailable(reply.exc)
    ELSE IF ~is_success(reply.status_code) THEN ServiceError(reply)
    ELSE IF reply.body.t = "malformed" THEN Unavailable("JSONDecodeError")
    ELSE IF ~IsDict(reply.body) THEN Unavailable("AttributeError")
    ELSE IF ~has(reply.body, "status") THEN Unavailable("KeyError: 'status'")
    ELSE LET d == reply.body
             m == WhatsAppStatus(get(d, "success", JBool(TRUE)),
                                 d.o["status"],
                                 get(d, "phone", JNull),
                                 get(d, "timestamp", JStr(now)))
         IN IF valid_WhatsAppStatus(m) THEN Ok(m) ELSE Unavailable("ValidationError")

\* main.py:171-193
status_outcome(reply, now) ==
    IF reply.kind = "raise" THEN Unavailable(reply.exc)
    ELSE IF ~is_success(reply.status_code) THEN ServiceError(reply)
    ELSE IF reply.body.t = "malformed" THEN Unavailable("JSONDecodeError")
    ELSE IF ~IsDict(reply.body) THEN Unavailable("AttributeError")
    ELSE LET d == reply.body
             m == WhatsAppStatus(get(d, "success", JBool(TRUE)),
                                 get(d, "status", JStr("unknown")),
                                 get(d, "phone", JNull),
                                 get(d, "timestamp", JStr(now)))
         IN IF valid_WhatsAppStatus(m) THEN Ok(m) ELSE Unavailable("ValidationError")

----------------------------------------------------------------------------
(* Groups transformer, main.py:223-266 *)

WhatsAppGroup(id, name, participants) ==
    [id |-> id, name |-> name, participants |-> participants]
GroupsResponse(success, count, groups) ==
    [success |-> success, count |-> count, groups |-> groups]

\* the exception raised while building WhatsAppGroup from `group`, or "none"
group_exc(group) ==
    IF ~IsDict(group) THEN "TypeError"
    ELSE IF ~has(group, "id") THEN "KeyError: 'id'"
    ELSE IF ~has(group, "name") THEN "KeyError: 'name'"
    ELSE IF ~has(group, "participants") THEN "KeyError: 'participants'"
    ELSE IF ~(/\ valid_str(group.o["id"])
              /\ valid_str(group.o["name"])
              /\ valid_int(group.o["participants"])) THEN "ValidationError"
    ELSE "none"

\* groups_transform trusting the upstream `count` field
groups_transform_upstream_count(d) ==
    LET gl == get(d, "groups", JList(<<>>)).l
        groups == [i \in 1..Len(gl) |->
                     WhatsAppGroup(gl[i].o["id"].s, gl[i].o["name"].s,
                                   int(gl[i].o["participants"]))]
    IN GroupsResponse(get(d, "success", JBool(TRUE)),
                      int(get(d, "count", JInt(Len(groups)))), groups)

\* main.py:236-251, for `data` a dict whose groups all convert
groups_transform(d) ==
    LET gl == get(d, "groups", JList(<<>>)).l
        groups == [i \in 1..Len(gl) |->
                     WhatsAppGroup(gl[i].o["id"].s, gl[i].o["name"].s,
                                   int(gl[i].o["participants"]))]
    IN GroupsResponse(get(d, "success", JBool(TRUE)), Len(groups), groups)

\* groups_outcome with a try inside the loop: an element that cannot be mapped
\* is skipped and the rest returned
groups_outcome_skipping(reply) ==
    IF reply.kind = "raise" THEN Unavailable(reply.exc)
    ELSE IF reply.status_code # 200 THEN ServiceError(reply)
    ELSE IF reply.body.t = "malformed" THEN Unavailable("JSONDecodeError")
    ELSE IF ~IsDict(reply.body) THEN Unavailable("AttributeError")
    ELSE LET d == reply.body
             gl == get(d, "groups", JList(<<>>))
         IN IF gl.t # "list" THEN Unavailable("TypeError")
            ELSE IF ~valid_bool(get(d, "success", JBool(TRUE)))
            THEN Unavailable("ValidationError")
            ELSE LET kept == SelectSeq(gl.l, LAMBDA g : group_exc(g) = "none")
                 IN Ok(groups_transform(
                        JObj([success |-> get(d, "success", JBool(TRUE)),
                              groups |-> JList(kept)])))

\* main.py:223-266: the outcome of the groups request
groups_outcome(reply) ==
    IF reply.kind = "raise" THEN Unavailable(reply.exc)
    ELSE IF reply.status_code # 200 THEN ServiceError(reply)
    ELSE IF reply.body.t = "malformed" THEN Unavailable("JSONDecodeError")
    ELSE IF ~IsDict(reply.body) THEN Unavailable("AttributeError")
    ELSE LET d == reply.body
             gl == get(d, "groups", JList(<<>>))
         IN IF gl.t # "list" THEN Unavailable("TypeError")
            ELSE IF \E i \in 1..Len(gl.l) : group_exc(gl.l[i]) # "none"
            THEN LET first == CHOOSE i \in 1..Len(gl.l) :
                               /\ group_exc(gl.l[i]) # "none"
                               /\ \A j \in 1..(i-1) : group_exc(gl.l[j]) = "none"
                 IN Unavailable(group_exc(gl.l[first]))
            ELSE IF ~valid_bool(get(d, "success", JBool(TRUE)))
            THEN Unavailable("ValidationError")
            ELSE Ok(groups_transform(d))

----------------------------------------------------------------------------
(* Messages transformer, main.py:300-369 *)

Message(id, from_user, content, timestamp, date) ==
    [id |-> id, from_user |-> from_user, content |-> content,
     timestamp |-> timestamp, date |-> date]
MessagesResponse(success, count, group_name, messages) ==
    [success |-> success, count |-> count, group_name |-> group_name,
     messages |-> messages]

\* main.py:330-334: the date string of `msg`; defined when no exception is raised
date_str(msg) ==
    IF truthy(get(msg, "timestamp", JNull))
    THEN strftime(int(msg.o["timestamp"]))
    ELSE Unknown

\* converts demanding the fields instead of defaulting them (msg["id"], ...)
converts_requires_fields(msg) ==
    /\ IsDict(msg)
    /\ has(msg, "id") /\ has(msg, "content")
    /\ (has(msg, "from_user") \/ has(msg, "from"))
    /\ truthy(get(msg, "timestamp", JNull)) => can_int(msg.o["timestamp"])
    /\ valid_str(msg.o["id"])
    /\ valid_str(get(msg, "from_user", get(msg, "from", JStr("Unknown"))))
    /\ valid_str(msg.o["content"])
    /\ valid_int(get(msg, "timestamp", JInt(0)))

\* main.py:329-345: the body of the try block raises no exception for `msg`
converts(msg) ==
    /\ IsDict(msg)                                           \* msg.get
    /\ truthy(get(msg, "timestamp", JNull)) => can_int(msg.o["timestamp"])
    /\ valid_str(get(msg, "id", JStr("")))
    /\ valid_str(get(msg, "from_user", get(msg, "from", JStr("Unknown"))))
    /\ valid_str(get(msg, "content", JStr("")))
    /\ valid_int(get(msg, "timestamp", JInt(0)))

\* main.py:336-342, for a `msg` that converts
to_Message(msg) ==
    Message(get(msg, "id", JStr("")).s,
            get(msg, "from_user", get(msg, "from", JStr("Unknown"))).s,
            get(msg, "content", JStr("")).s,
            int(get(msg, "timestamp", JInt(0))),
            date_str(msg))

\* convert_messages with the try around the loop instead of inside it: the
\* first record that raises ends the batch
RECURSIVE convert_messages_abort(_)
convert_messages_abort(l) ==
    IF l = <<>> THEN <<>>
    ELSE IF converts(Head(l))
         THEN <<to_Message(Head(l))>> \o convert_messages_abort(Tail(l))
         ELSE <<>>

\* convert_messages with messages.insert(0, ...) for messages.append(...)
RECURSIVE convert_messages_newest_first(_)
convert_messages_newest_first(l) ==
    IF l = <<>> THEN <<>>
    ELSE IF converts(Head(l))
         THEN convert_messages_newest_first(Tail(l)) \o <<to_Message(Head(l))>>
         ELSE convert_messages_newest_first(Tail(l))

\* main.py:327-345: the loop, skipping the records that raise
RECURSIVE convert_messages(_)
convert_messages(l) ==
    IF l = <<>> THEN <<>>
    ELSE IF converts(Head(l))
         THEN <<to_Message(Head(l))>> \o convert_messages(Tail(l))
         ELSE convert_messages(Tail(l))

\* find_group_name without the `break` of main.py:325: the last match wins
RECURSIVE find_group_name_no_break(_, _)
find_group_name_no_break(l, group_id) ==
    IF l = <<>> THEN [exc |-> "none", name |-> JNull]
    ELSE LET group == Head(l)
             rest == find_group_name_no_break(Tail(l), group_id) IN
         IF ~IsDict(group) THEN [exc |-> "TypeError", name |-> JNull]
         ELSE IF ~has(group, "id") THEN [exc |-> "KeyError: 'id'", name |-> JNull]
         ELSE IF group.o["id"] = JStr(group_id)
              THEN IF ~has(group, "name")
                   THEN [exc |-> "KeyError: 'name'", name |-> JNull]
                   ELSE IF rest.exc = "none" /\ rest.name = JNull
                        THEN [exc |-> "none", name |-> group.o["name"]]
                        ELSE rest
              ELSE rest

\* main.py:321-325: [exc |-> e] when the loop raises, else [name |-> group_name]
RECURSIVE find_group_name(_, _)
find_group_name(l, group_id) ==
    IF l = <<>> THEN [exc |-> "none", name |-> JNull]
    ELSE LET group == Head(l) IN
         IF ~IsDict(group) THEN [exc |-> "TypeError", name |-> JNull]
         ELSE IF ~has(group, "id") THEN [exc |-> "KeyError: 'id'", name |-> JNull]
         ELSE IF group.o["id"] = JStr(group_id)
              THEN IF has(group, "name")
                   THEN [exc |-> "none", name |-> group.o["name"]]
                   ELSE [exc |-> "KeyError: 'name'", name |-> JNull]
              ELSE find_group_name(Tail(l), group_id)

\* main.py:349-354
messages_transform(d, group_name) ==
    LET messages == convert_messages(get(d, "messages", JList(<<>>)).l)
    IN MessagesResponse(get(d, "success", JBool(TRUE)), Len(messages),
                        group_name, messages)

\* main.py:300-311: the outcome of the first call when it ends the request,
\* or NoResponse when the handler goes on to fetch the group name
messages_first_outcome(reply) ==
    IF reply.kind = "raise" THEN Unavailable(reply.exc)
    ELSE IF reply.status_code # 200 THEN ServiceError(reply)
    ELSE IF reply.body.t = "malformed" THEN Unavailable("JSONDecodeError")
    ELSE NoResponse

\* main.py:319-369: the outcome once the second (groups) call has returned
messages_outcome(d, group_id, reply) ==
    IF reply.kind = "raise" THEN Unavailable(reply.exc)
    ELSE IF reply.body.t = "malformed" THEN Unavailable("JSONDecodeError")
    ELSE IF ~IsDict(reply.body) THEN Unavailable("AttributeError")
    ELSE LET gl == get(reply.body, "groups", JList(<<>>)) IN
         IF gl.t # "list" THEN Unavailable("TypeError")
         ELSE LET found == find_group_name(gl.l, group_id) IN
              IF found.exc # "none" THEN Unavailable(found.exc)
              ELSE IF ~IsDict(d) THEN Unavailable("AttributeError")
              ELSE IF get(d, "messages", JList(<<>>)).t # "list"
              THEN Unavailable("TypeError")
              ELSE IF ~(/\ valid_bool(get(d, "success", JBool(TRUE)))
                        /\ (found.name = JNull \/ valid_str(found.name)))
              THEN Unavailable("ValidationError")
              ELSE Ok(messages_transform(d, found.name))

----------------------------------------------------------------------------
(* Route catalog of the pass-through handlers, main.py:373-1199 *)

PostRoutes ==
    { "/api/send", "/api/send-media", "/api/send-location", "/api/send-contact",
      "/api/send-poll", "/api/reply", "/api/react", "/api/edit-message",
      "/api/delete-message",
      "/api/group/create", "/api/group/update-subject",
      "/api/group/update-description", "/api/group/add-participants",
      "/api/group/remove-participants", "/api/group/promote", "/api/group/demote",
      "/api/group/update-settings", "/api/group/leave", "/api/group/revoke-invite",
      "/api/group/accept-invite",
      "/api/chat/read", "/api/chat/archive", "/api/chat/pin", "/api/chat/mute",
      "/api/chat/delete",
      "/api/profile/update-name", "/api/profile/update-status", "/api/user/block",
      "/api/presence/update", "/api/presence/subscribe", "/api/download-media" }

\* GET pass-through routes and the values of their path parameter
GetRoutes ==
    { "/api/group/{group_id}/invite-code", "/api/profile-picture/{jid}",
      "/api/user/{jid}/status", "/api/user/{jid}/exists",
      "/api/business/{jid}/profile" }
PathArgs(path) ==
    IF path = "/api/group/{group_id}/invite-code"
    THEN { [group_id |-> g] : g \in GroupIds }
    ELSE { [jid |-> j] : j \in Jids }

----------------------------------------------------------------------------
(* The request being handled and the upstream calls made for it *)

NoArgs == [none |-> TRUE]
NoRequest == [handler |-> "none"]
Request(handler, path, args, authorization, body) ==
    [handler |-> handler, path |-> path, args |-> args,
     authorization |-> authorization, body |-> body]
\* client.get / client.post: URL is WHATSAPP_SERVICE_URL followed by path
Call(method, path, args, headers, json) ==
    [method |-> method, url |-> WHATSAPP_SERVICE_URL, path |-> path, args |-> args,
     headers |-> headers, json |-> json]

\* no use of get_db has begun, nothing is imported or created
Unused ==
    [pc |-> "unused", events |-> <<>>, thrown |-> "none", rollback_exc |-> "none",
     raised |-> "none"]
DatabaseBase == "backend.utils.database.Base"
InitDatabase ==
    /\ sessions = [s \in 1..MaxSessions |-> Unused]
    /\ metadata = (DatabaseBase :> {})
    /\ tables = {}
    /\ init_result = "not called"

Init ==
    /\ WHATSAPP_SERVICE_URL = DefaultServiceUrl
    /\ WHATSAPP_API_KEY \in ApiKeyValues
    /\ pc = "idle"
    /\ request = NoRequest
    /\ calls = <<>>
    /\ replies = <<>>
    /\ data = NoData
    /\ response = NoResponse
    /\ last = NoLast
    /\ others = <<>>
    /\ InitDatabase

config == <<WHATSAPP_SERVICE_URL, WHATSAPP_API_KEY>>

\* the handler ends with `outcome` without calling the upstream (again)
Finish(outcome) ==
    /\ response' = outcome
    /\ pc' = "done"

\* GET /api/whatsapp/status up to its await, main.py:152-169
\* get_whatsapp_status with the pre-flight check of the list handlers in front
get_whatsapp_status_checked(authorization) ==
    /\ pc = "idle"
    /\ request' = Request("get_whatsapp_status", "/api/whatsapp/status", NoArgs,
                          authorization, NoBody)
    /\ IF authorization = None /\ WHATSAPP_API_KEY = ""
       THEN /\ Finish(AuthRequired)
            /\ UNCHANGED calls
       ELSE /\ calls' = <<Call("GET", "/api/status", NoArgs,
                               get_headers(authorization), NoBody)>>
            /\ pc' = "await_status"
            /\ UNCHANGED response
    /\ UNCHANGED <<config, dbvars, last, others, replies, data>>

get_whatsapp_status(authorization) ==
    /\ pc = "idle"
    /\ request' = Request("get_whatsapp_status", "/api/whatsapp/status", NoArgs,
                          authorization, NoBody)
    /\ calls' = <<Call("GET", "/api/status", NoArgs, get_headers(authorization), NoBody)>>
    /\ pc' = "await_status"
    /\ UNCHANGED <<config, dbvars, last, others, replies, data, response>>

\* ... and from the upstream reply on, main.py:171-193
get_whatsapp_status_resume(reply, now) ==
    /\ pc = "await_status"
    /\ replies' = Append(replies, reply)
    /\ Finish(status_outcome(reply, now))
    /\ UNCHANGED <<config, dbvars, last, others, request, calls, data>>

\* GET /api/whatsapp/groups up to its await, main.py:195-221
get_whatsapp_groups(authorization) ==
    /\ pc = "idle"
    /\ request' = Request("get_whatsapp_groups", "/api/whatsapp/groups", NoArgs,
                          authorization, NoBody)
    /\ IF auth_missing(authorization)
       THEN /\ Finish(AuthRequired)
            /\ UNCHANGED calls
       ELSE /\ calls' = <<Call("GET", "/api/groups", NoArgs,
                               get_headers(authorization), NoBody)>>
            /\ pc' = "await_groups"
            /\ UNCHANGED response
    /\ UNCHANGED <<config, dbvars, last, others, replies, data>>

\* ... and from the upstream reply on, main.py:223-266
get_whatsapp_groups_resume(reply) ==
    /\ pc = "await_groups"
    /\ replies' = Append(replies, reply)
    /\ Finish(groups_outcome(reply))
    /\ UNCHANGED <<config, dbvars, last, others, request, calls, data>>

\* GET /api/whatsapp/messages/{group_id} up to its first await, main.py:268-298
\* get_group_messages firing the messages call and the groups call together
get_group_messages_fan_out(group_id, limit, authorization) ==
    /\ pc = "idle"
    /\ request' = Request("get_group_messages", "/api/whatsapp/messages/{group_id}",
                          [group_id |-> group_id, limit |-> limit],
                          authorization, NoBody)
    /\ IF auth_missing(authorization)
       THEN /\ Finish(AuthRequired)
            /\ UNCHANGED calls
       ELSE /\ calls' = <<Call("GET", "/api/messages/{group_id}?limit={limit}",
                               [group_id |-> group_id, limit |-> limit],
                               get_headers(authorization), NoBody),
                          Call("GET", "/api/groups", NoArgs,
                               get_headers(authorization), NoBody)>>
            /\ pc' = "await_messages"
            /\ UNCHANGED response
    /\ UNCHANGED <<config, dbvars, last, others, replies, data>>

get_group_messages(group_id, limit, authorization) ==
    /\ pc = "idle"
    /\ request' = Request("get_group_messages", "/api/whatsapp/messages/{group_id}",
                          [group_id |-> group_id, limit |-> limit],
                          authorization, NoBody)
    /\ IF auth_missing(authorization)
       THEN /\ Finish(AuthRequired)
            /\ UNCHANGED calls
       ELSE /\ calls' = <<Call("GET", "/api/messages/{group_id}?limit={limit}",
                               [group_id |-> group_id, limit |-> limit],
                               get_headers(authorization), NoBody)>>
            /\ pc' = "await_messages"
            /\ UNCHANGED response
    /\ UNCHANGED <<config, dbvars, last, others, replies, data>>

\* get_group_messages_resume trying the messages call again after a transport error
get_group_messages_resume_retry(reply) ==
    /\ pc = "await_messages"
    /\ replies' = Append(replies, reply)
    /\ IF reply.kind = "raise"
       THEN /\ calls' = Append(calls, calls[1])
            /\ UNCHANGED <<pc, data, response>>
       ELSE IF messages_first_outcome(reply) # NoResponse
       THEN /\ Finish(messages_first_outcome(reply))
            /\ UNCHANGED <<calls, data>>
       ELSE /\ data' = reply.body
            /\ calls' = Append(calls, Call("GET", "/api/groups", NoArgs,
                                           calls[1].headers, NoBody))
            /\ pc' = "await_group_name"
            /\ UNCHANGED response
    /\ UNCHANGED <<config, dbvars, last, others, request>>

\* ... from the reply of the messages call to the second await, main.py:300-318
get_group_messages_resume(reply) ==
    /\ pc = "await_messages"
    /\ replies' = Append(replies, reply)
    /\ IF messages_first_outcome(reply) # NoResponse
       THEN /\ Finish(messages_first_outcome(reply))
            /\ UNCHANGED <<calls, data>>
       ELSE /\ data' = reply.body
            \* `headers` is the dict built before the first call
            /\ calls' = Append(calls, Call("GET", "/api/groups", NoArgs,
                                           calls[1].headers, NoBody))
            /\ pc' = "await_group_name"
            /\ UNCHANGED response
    /\ UNCHANGED <<config, dbvars, last, others, request>>

\* ... and from the reply of the groups call on, main.py:319-369
get_group_messages_finish(reply) ==
    /\ pc = "await_group_name"
    /\ replies' = Append(replies, reply)
    /\ Finish(messages_outcome(data, request.args.group_id, reply))
    /\ UNCHANGED <<config, dbvars, last, others, request, calls, data>>

\* post_passthrough handing the caller's raw body on without parsing it
post_passthrough_unparsed(path, body, authorization) ==
    /\ pc = "idle"
    /\ request' = Request("post_passthrough", path, NoArgs, authorization, body)
    /\ calls' = <<Call("POST", path, NoArgs, get_headers(authorization), body)>>
    /\ pc' = "await_forward"
    /\ UNCHANGED <<config, dbvars, last, others, replies, data, response>>

\* a POST pass-through handler up to its upstream call, e.g. main.py:373-386
post_passthrough(path, body, authorization) ==
    /\ pc = "idle"
    /\ request' = Request("post_passthrough", path, NoArgs, authorization, body)
    /\ IF body.t = "malformed"                      \* await request.json() raises
       THEN /\ Finish(HTTPException(503, <<str("JSONDecodeError")>>))
            /\ UNCHANGED calls
       ELSE /\ calls' = <<Call("POST", path, NoArgs, get_headers(authorization), body)>>
            /\ pc' = "await_forward"
            /\ UNCHANGED response
    /\ UNCHANGED <<config, dbvars, last, others, replies, data>>

\* a GET pass-through handler up to its upstream call, e.g. main.py:975-987
get_passthrough(path, args, authorization) ==
    /\ pc = "idle"
    /\ request' = Request("get_passthrough", path, args, authorization, NoBody)
    /\ calls' = <<Call("GET", path, args, get_headers(authorization), NoBody)>>
    /\ pc' = "await_forward"
    /\ UNCHANGED <<config, dbvars, last, others, replies, data, response>>

\* a pass-through handler from the upstream reply on, e.g. main.py:388-394
passthrough_resume(reply) ==
    /\ pc = "await_forward"
    /\ replies' = Append(replies, reply)
    /\ Finish(forward_outcome(reply))
    /\ UNCHANGED <<config, dbvars, last, others, request, calls, data>>

\* main.py:101-140: the dict returned by root (the emoji in front of the
\* texts are left out)
RootFeatures ==
    [messaging |-> "All message types (text, media, location, contact, poll)",
     message_actions |-> "Reply, react, edit, delete",
     groups |-> "Complete group management",
     chats |-> "Archive, pin, mute, delete",
     profile |-> "Profile operations",
     presence |-> "Typing indicators, online status",
     utilities |-> "Media download, business profiles"]
RootEndpoints ==
    [status |-> "/api/whatsapp/status",
     groups |-> "/api/whatsapp/groups",
     messages |-> "/api/whatsapp/messages/{group_id}",
     send |-> "/api/send",
     send_media |-> "/api/send-media",
     send_location |-> "/api/send-location",
     send_contact |-> "/api/send-contact",
     send_poll |-> "/api/send-poll",
     reply |-> "/api/reply",
     react |-> "/api/react",
     edit_message |-> "/api/edit-message",
     delete_message |-> "/api/delete-message",
     group_operations |-> "/api/group/*",
     chat_operations |-> "/api/chat/*",
     profile_operations |-> "/api/profile/*",
     presence_operations |-> "/api/presence/*",
     docs |-> "/docs"]
\* bool(WHATSAPP_API_KEY)
bool(s) == s # ""
root_body(now) ==
    [message |-> "Academic Manager API - Running!",
     status |-> "Active",
     version |-> "2.0.0",
     features |-> RootFeatures,
     whatsapp |-> [service_url |-> WHATSAPP_SERVICE_URL,
                   api_key_configured |-> bool(WHATSAPP_API_KEY)],
     endpoints |-> RootEndpoints,
     timestamp |-> now]
\* health_check echoing the key, as the start-up banner of main.py:44 does
\* with its first characters
health_body_key_prefix(now) ==
    [status |-> "healthy",
     service |-> "Academic Manager API",
     whatsapp_service |-> WHATSAPP_SERVICE_URL,
     api_key_present |-> bool(WHATSAPP_API_KEY),
     api_key |-> WHATSAPP_API_KEY,
     timestamp |-> now]

\* main.py:142-150: the dict returned by health_check
health_body(now) ==
    [status |-> "healthy",
     service |-> "Academic Manager API",
     whatsapp_service |-> WHATSAPP_SERVICE_URL,
     api_key_present |-> bool(WHATSAPP_API_KEY),
     timestamp |-> now]

\* GET /, main.py:101-140
root(now) ==
    /\ pc = "idle"
    /\ request' = Request("root", "/", NoArgs, None, NoBody)
    /\ Finish(Ok(root_body(now)))
    /\ UNCHANGED <<config, dbvars, last, others, calls, replies, data>>

\* GET /health, main.py:142-150
health_check(now) ==
    /\ pc = "idle"
    /\ request' = Request("health_check", "/health", NoArgs, None, NoBody)
    /\ Finish(Ok(health_body(now)))
    /\ UNCHANGED <<config, dbvars, last, others, calls, replies, data>>

\* the framework sends the outcome to the caller; the process serves the next request
send_response ==
    /\ pc = "done"
    /\ pc' = "idle"
    /\ request' = NoRequest
    /\ calls' = <<>>
    /\ replies' = <<>>
    /\ data' = NoData
    /\ response' = NoResponse
    /\ UNCHANGED <<config, dbvars, last, others>>

Next ==
    \/ \E a \in AuthValues : get_whatsapp_status(a)
    \/ \E r \in RepliesWith(StatusBodies), now \in Clock : get_whatsapp_status_resume(r, now)
    \/ \E a \in AuthValues : get_whatsapp_groups(a)
    \/ \E r \in RepliesWith(GroupsBodies) : get_whatsapp_groups_resume(r)
    \/ \E g \in GroupIds, a \in AuthValues : get_group_messages(g, DefaultLimit, a)
    \/ \E r \in RepliesWith(MessagesBodies) : get_group_messages_resume(r)
    \/ \E r \in RepliesWith(GroupsBodies) : get_group_messages_finish(r)
    \/ \E p \in PostRoutes, b \in CallerBodies, a \in AuthValues : post_passthrough(p, b, a)
    \/ \E p \in GetRoutes, a \in AuthValues : \E x \in PathArgs(p) : get_passthrough(p, x, a)
    \/ \E r \in RepliesWith(ForwardBodies) : passthrough_resume(r)
    \/ \E now \in Clock : root(now)
    \/ \E now \in Clock : health_check(now)
    \/ send_response

Spec == Init /\ [][Next]_vars

-----------------------------------------------------------------------------
(* The same read-only request issued twice against an unchanged upstream *)

ReadOnlyHandlers == {"get_whatsapp_status", "get_whatsapp_groups", "get_group_messages"}

\* longest upstream list answered to a request that is issued twice
MaxTwice == 1
TwiceGroupsBodies ==
    { JObj([groups |-> JList(l)]) : l \in SubSeqsUpTo(GroupRecords, MaxTwice) }
    \cup { JObj([success |-> JBool(TRUE)]), JList(<<>>) }
TwiceMessagesBodies ==
    { JObj([messages |-> JList(l)]) : l \in SubSeqsUpTo(MessageRecords, MaxTwice) }
    \cup { JObj([success |-> JBool(TRUE)]), JList(<<>>) }

\* the upstream answers the repeated request's calls as it answered the first's
SameUpstream(reply) ==
    last # NoLast => /\ Len(replies) < Len(last.replies)
                     /\ reply = last.replies[Len(replies) + 1]

\* the outcome of the first request is sent and remembered
remember ==
    /\ pc = "done"
    /\ last = NoLast
    /\ last' = [handler |-> request.handler, request |-> request, calls |-> calls,
                replies |-> replies, response |-> response, config |-> config]
    /\ pc' = "idle"
    /\ request' = NoRequest
    /\ calls' = <<>>
    /\ replies' = <<>>
    /\ data' = NoData
    /\ response' = NoResponse
    /\ UNCHANGED <<config, dbvars, others>>

\* the caller issues the remembered request again
repeat_request ==
    /\ last # NoLast
    /\ request = NoRequest
    /\ \/ /\ last.handler = "get_whatsapp_status"
          /\ get_whatsapp_status(last.request.authorization)
       \/ /\ last.handler = "get_whatsapp_groups"
          /\ get_whatsapp_groups(last.request.authorization)
       \/ /\ last.handler = "get_group_messages"
          /\ get_group_messages(last.request.args.group_id, last.request.args.limit,
                                last.request.authorization)

\* the second outcome is sent; the process is as it was at start
forget ==
    /\ pc = "done"
    /\ last # NoLast
    /\ last' = NoLast
    /\ pc' = "idle"
    /\ request' = NoRequest
    /\ calls' = <<>>
    /\ replies' = <<>>
    /\ data' = NoData
    /\ response' = NoResponse
    /\ UNCHANGED <<config, dbvars, others>>

NextTwice ==
    \/ \E a \in AuthValues : last = NoLast /\ get_whatsapp_status(a)
    \/ \E a \in AuthValues : last = NoLast /\ get_whatsapp_groups(a)
    \/ \E g \in GroupIds, a \in AuthValues :
         last = NoLast /\ get_group_messages(g, DefaultLimit, a)
    \/ \E r \in RepliesWith(StatusBodies), now \in Clock :
         SameUpstream(r) /\ get_whatsapp_status_resume(r, now)
    \/ \E r \in RepliesWith(TwiceGroupsBodies) :
         SameUpstream(r) /\ get_whatsapp_groups_resume(r)
    \/ \E r \in RepliesWith(TwiceMessagesBodies) :
         SameUpstream(r) /\ get_group_messages_resume(r)
    \/ \E r \in RepliesWith(TwiceGroupsBodies) :
         SameUpstream(r) /\ get_group_messages_finish(r)
    \/ remember
    \/ repeat_request
    \/ forget

SpecTwice == Init /\ [][NextTwice]_vars

----------------------------------------------------------------------------
(* Several requests in flight on the one event loop *)

\* most requests in flight at once
MaxInFlight == 2

\* the handler whose code is running, as the event loop holds it when suspended
Current ==
    [pc |-> pc, request |-> request, calls |-> calls, replies |-> replies,
     data |-> data, response |-> response]
IdleContext ==
    [pc |-> "idle", request |-> NoRequest, calls |-> <<>>, replies |-> <<>>,
     data |-> NoData, response |-> NoResponse]

InitInFlight ==
    /\ WHATSAPP_SERVICE_URL = DefaultServiceUrl
    /\ WHATSAPP_API_KEY \in ApiKeyValues
    /\ pc = "idle"
    /\ request = NoRequest
    /\ calls = <<>>
    /\ replies = <<>>
    /\ data = NoData
    /\ response = NoResponse
    /\ last = NoLast
    /\ others = [i \in 1..(MaxInFlight - 1) |-> IdleContext]
    /\ InitDatabase

\* at an await the event loop resumes another handler: e.g. main.py:164, 385
switch(i) ==
    /\ i \in 1..Len(others)
    /\ others' = [others EXCEPT ![i] = Current]
    /\ pc' = others[i].pc
    /\ request' = others[i].request
    /\ calls' = others[i].calls
    /\ replies' = others[i].replies
    /\ data' = others[i].data
    /\ response' = others[i].response
    /\ UNCHANGED <<config, dbvars, last>>

\* callers and upstream replies of the requests in flight
CallerTokens == {None, "Bearer user-token", "Bearer other-token"}
InFlightMessages ==
    { JObj([messages |-> JList(<<MessageRecords[1]>>)]),
      JObj([messages |-> JList(<<MessageRecords[3]>>)]) }
InFlightGroups == { JObj([groups |-> JList(<<GroupRecords[2]>>)]) }
InFlightReplies(Bodies) ==
    { Raise("ConnectError"), Response(404, JObj([error |-> JStr("not found")])) }
    \cup { Response(200, b) : b \in Bodies }

NextInFlight ==
    \/ \E a \in CallerTokens : get_group_messages("g1", DefaultLimit, a)
    \/ \E r \in InFlightReplies(InFlightMessages) : get_group_messages_resume(r)
    \/ \E r \in InFlightReplies(InFlightGroups) : get_group_messages_finish(r)
    \/ \E b \in CallerBodies, a \in CallerTokens : post_passthrough("/api/send", b, a)
    \/ \E r \in InFlightReplies(ForwardBodies) : passthrough_resume(r)
    \/ send_response
    \/ \E i \in 1..(MaxInFlight - 1) : switch(i)

SpecInFlight == InitInFlight /\ [][NextInFlight]_vars

----------------------------------------------------------------------------
(* Database sessions and tables, utils/database.py and models/user.py *)

\* exceptions an endpoint throws into the generator, and how db.rollback() ends
EndpointExceptions == {"IntegrityError", "HTTPException"}
RollbackOutcomes == {"none", "OperationalError"}

\* get_db without the `raise` of database.py:68: the handler rolls back and
\* swallows the exception
after_yield_suppressed(thrown, rollback_exc) ==
    IF thrown = "none"
    THEN [events |-> <<"log_database_operation", "close">>, raised |-> "none"]
    ELSE [events |-> <<"log_error", "rollback", "close">>,
          raised |-> rollback_exc]

\* database.py:52-70: what the generator does when it is resumed after the
\* yield, normally (thrown = "none") or with the endpoint's exception, and the
\* exception that leaves it
after_yield(thrown, rollback_exc) ==
    IF thrown = "none"
    THEN [events |-> <<"log_database_operation", "close">>, raised |-> "none"]
    ELSE [events |-> <<"log_error", "rollback", "close">>,
          \* a failing db.rollback() raises in place of the bare `raise`
          raised |-> IF rollback_exc # "none" THEN rollback_exc ELSE thrown]

\* database.py:49-53: a use of get_db up to its yield
get_db(s) ==
    /\ sessions[s].pc = "unused"
    /\ sessions' = [sessions EXCEPT ![s].pc = "yielded",
                                    ![s].events = <<"SessionLocal">>]
    /\ UNCHANGED <<config, pc, request, calls, replies, data, response, last, others,
                   metadata, tables, init_result>>

\* the endpoint returned: the generator runs on from the yield to its end
get_db_next(s) ==
    /\ sessions[s].pc = "yielded"
    /\ sessions' = [sessions EXCEPT
                      ![s].pc = "finished",
                      ![s].events = @ \o after_yield("none", "none").events,
                      ![s].raised = after_yield("none", "none").raised]
    /\ UNCHANGED <<config, pc, request, calls, replies, data, response, last, others,
                   metadata, tables, init_result>>

\* the endpoint raised: the exception is thrown into the generator at the yield
get_db_throw(s, exc, rollback_exc) ==
    /\ sessions[s].pc = "yielded"
    /\ sessions' = [sessions EXCEPT
                      ![s].pc = "finished",
                      ![s].thrown = exc,
                      ![s].rollback_exc = rollback_exc,
                      ![s].events = @ \o after_yield(exc, rollback_exc).events,
                      ![s].raised = after_yield(exc, rollback_exc).raised]
    /\ UNCHANGED <<config, pc, request, calls, replies, data, response, last, others,
                   metadata, tables, init_result>>

\* models/user.py:9: the name Base is bound anew, to a declarative base of the
\* module's own, after the import of database.Base at models/user.py:5
UserBase == "backend.models.user.Base"
\* models/user.py:11-12, 66-67: the tables of the classes deriving from Base
UserTables == {"users", "system_settings"}

\* import backend.models.user: the classes register on the Base they derive from
import_models_user ==
    /\ UserBase \notin DOMAIN metadata
    /\ metadata' = metadata @@ (UserBase :> UserTables)
    /\ UNCHANGED <<config, pc, request, calls, replies, data, response, last, others,
                   sessions, tables, init_result>>

\* database.py:73-83: create_all on the metadata of database.Base
init_db(create_all_exc) ==
    /\ IF create_all_exc = "none"
       THEN /\ tables' = tables \cup metadata[DatabaseBase]
            /\ init_result' = "returned"
       ELSE /\ init_result' = create_all_exc
            /\ UNCHANGED tables
    /\ UNCHANGED <<config, pc, request, calls, replies, data, response, last, others,
                   sessions, metadata>>

NextDatabase ==
    \/ \E s \in 1..MaxSessions : get_db(s)
    \/ \E s \in 1..MaxSessions : get_db_next(s)
    \/ \E s \in 1..MaxSessions, e \in EndpointExceptions, r \in RollbackOutcomes :
         get_db_throw(s, e, r)
    \/ import_models_user
    \/ \E e \in {"none", "OperationalError"} : init_db(e)

SpecDatabase == Init /\ [][NextDatabase]_vars

----------------------------------------------------------------------------
(* Properties *)

\* the elements of a JSON array; none for any other value
Items(v) == IF v.t = "list" THEN v.l ELSE <<>>
IsArray(v, key) == get(v, key, JList(<<>>)).t = "list"

Handling(handler) == pc # "idle" /\ request.handler = handler
ListHandlers == {"get_whatsapp_groups", "get_group_messages"}
NoCredentials == request.authorization = None /\ WHATSAPP_API_KEY = ""

\* C1: on the groups and messages routes, a request without Authorization
\* header while no API key is configured ends with 401 and the fixed detail,
\* and no upstream call is issued for it.
C1_Unauthenticated401NoCall ==
    (pc # "idle" /\ request.handler \in ListHandlers /\ NoCredentials)
    => /\ pc = "done"
       /\ response.kind = "HTTPException"
       /\ response.status_code = 401
       /\ response.detail = <<Lit("Authentication required. Please login first.")>>
       /\ calls = <<>>
       /\ replies = <<>>

C1_Witness ==
    /\ Handling("get_group_messages")
    /\ NoCredentials
    /\ pc = "done"
    /\ response.status_code = 401

\* the pass-through routes the route catalog marks "Auth required: yes"
CatalogAuthRequired ==
    { p \in PostRoutes :
        p \notin { "/api/send", "/api/send-media", "/api/send-location",
                   "/api/send-contact", "/api/send-poll", "/api/reply", "/api/react",
                   "/api/edit-message", "/api/delete-message" } }
    \cup GetRoutes

\* C2: on every pass-through route marked as requiring authentication, a
\* request without Authorization header while no API key is configured gets
\* 401 and the upstream is never contacted.
C2_PassThrough401NoCall ==
    (pc # "idle" /\ request.path \in CatalogAuthRequired /\ NoCredentials)
    => /\ calls = <<>>
       /\ pc = "done"
       /\ response.kind = "HTTPException"
       /\ response.status_code = 401

\* C3: with a non-empty Authorization header, every upstream call of the
\* request carries that value as Authorization and no x-api-key.
C3_TokenForwardedVerbatim ==
    (pc # "idle" /\ present(request.authorization))
    => \A i \in 1..Len(calls) :
         /\ "Authorization" \in DOMAIN calls[i].headers
         /\ calls[i].headers["Authorization"] = request.authorization
         /\ "x-api-key" \notin DOMAIN calls[i].headers

C3_Witness ==
    /\ Handling("get_group_messages")
    /\ present(request.authorization)
    /\ WHATSAPP_API_KEY # ""
    /\ Len(calls) = 2
    /\ pc = "done"

\* C4: without Authorization header but with an API key configured, every
\* upstream call of the request carries x-api-key equal to the key and no
\* Authorization header.
C4_ApiKeyFallback ==
    (pc # "idle" /\ request.authorization = None /\ WHATSAPP_API_KEY # "")
    => \A i \in 1..Len(calls) :
         /\ "x-api-key" \in DOMAIN calls[i].headers
         /\ calls[i].headers["x-api-key"] = WHATSAPP_API_KEY
         /\ "Authorization" \notin DOMAIN calls[i].headers

C4_Witness ==
    /\ Handling("get_group_messages")
    /\ request.authorization = None
    /\ WHATSAPP_API_KEY # ""
    /\ Len(calls) = 2

\* C5: the headers get_headers returns always hold Content-Type:
\* application/json, hold nothing else when neither a token nor an API key is
\* available, and never hold both Authorization and x-api-key.
C5_HeaderSetShape ==
    \A a \in AuthValues :
      LET h == get_headers(a) IN
        /\ "Content-Type" \in DOMAIN h
        /\ h["Content-Type"] = "application/json"
        /\ (~present(a) /\ WHATSAPP_API_KEY = "") => DOMAIN h = {"Content-Type"}
        /\ ~({"Authorization", "x-api-key"} \subseteq DOMAIN h)
        /\ \A i \in 1..Len(calls) :
             request.authorization = a => calls[i].headers = h

C5_Witness ==
    /\ Len(calls) = 1
    /\ ~present(request.authorization)
    /\ WHATSAPP_API_KEY = ""
    /\ DOMAIN calls[1].headers = {"Content-Type"}

RejectedReply(r) == r.kind = "response" /\ ~is_success(r.status_code)

\* a 2xx reply whose JSON body has the shape the handler reads
WellFormedReply(r, for_groups) ==
    /\ r.kind = "response"
    /\ is_success(r.status_code)
    /\ IsDict(r.body)
    /\ IsArray(r.body, "groups")
    /\ IsArray(r.body, "messages")
    /\ for_groups =>
         /\ \A i \in 1..Len(Items(get(r.body, "groups", JList(<<>>)))) :
               group_exc(Items(get(r.body, "groups", JList(<<>>)))[i]) = "none"

\* C6: when the upstream answers a call with a non-2xx status (the other
\* calls of the request being answered well), the request fails with that
\* status code and a detail containing the upstream body text.
C6_UpstreamStatusPassedThrough ==
    pc = "done"
    => \A i \in 1..Len(replies) :
         (/\ RejectedReply(replies[i])
          /\ \A j \in (1..Len(replies)) \ {i} :
               WellFormedReply(replies[j], calls[j].path = "/api/groups"))
         => /\ response.kind = "HTTPException"
            /\ response.status_code = replies[i].status_code
            /\ Contains(response.detail, text(replies[i].body))

\* the cause of a failed call: the transport exception, or the JSON decoding
\* error of a successful (2xx) reply whose body is not JSON
FailureCause(r) ==
    IF r.kind = "raise" THEN r.exc ELSE "JSONDecodeError"
FailedReply(r) ==
    \/ r.kind = "raise"
    \/ r.kind = "response" /\ is_success(r.status_code) /\ r.body.t = "malformed"

\* C7: a transport failure of an upstream call, or a malformed body of an
\* accepted reply, makes the request fail with 503 and a detail containing the
\* text of the cause.
C7_TransportFailure503 ==
    pc = "done"
    => \A i \in 1..Len(replies) :
         FailedReply(replies[i])
         => /\ response.kind = "HTTPException"
            /\ response.status_code = 503
            /\ Contains(response.detail, str(FailureCause(replies[i])))

\* C8: a reply with any 2xx status and a well-formed JSON body is a success
\* answered with status 200; a failure carrying the upstream status code is
\* produced only for a status outside 2xx.
C8_Any2xxIsSuccess ==
    (/\ pc = "done"
     /\ Len(replies) = Len(calls)
     /\ Len(replies) > 0
     /\ \A i \in 1..Len(replies) :
          WellFormedReply(replies[i], calls[i].path = "/api/groups"))
    => /\ response.kind = "ok"
       /\ response.status_code = 200

\* C9: in every successful groups or messages response, count is the length
\* of the returned sequence.
C9_CountIsLength ==
    (pc = "done" /\ response.kind = "ok")
    => /\ request.handler = "get_whatsapp_groups"
          => response.body.count = Len(response.body.groups)
       /\ request.handler = "get_group_messages"
          => response.body.count = Len(response.body.messages)

C9_Witness ==
    /\ Handling("get_whatsapp_groups")
    /\ pc = "done"
    /\ response.kind = "ok"
    /\ has(replies[1].body, "count")
    /\ int(replies[1].body.o["count"]) # Len(response.body.groups)
    /\ Len(response.body.groups) = MaxGroups

\* an upstream message record complete but for its timestamp, which is
\* missing or not a number
BadTimestampOnly(msg) ==
    /\ IsDict(msg)
    /\ has(msg, "id") /\ valid_str(msg.o["id"])
    /\ has(msg, "content") /\ valid_str(msg.o["content"])
    /\ (has(msg, "from") \/ has(msg, "from_user"))
    /\ has(msg, "timestamp") => ~can_int(msg.o["timestamp"])

\* C10: every upstream message whose timestamp is missing or non-numeric is
\* present in the result, with date "Unknown".
C10_BadTimestampKeptAsUnknown ==
    (Handling("get_group_messages") /\ pc = "done" /\ response.kind = "ok")
    => LET upstream == Items(get(data, "messages", JList(<<>>)))
           returned == response.body.messages
       IN \A i \in 1..Len(upstream) :
            BadTimestampOnly(upstream[i])
            => \E j \in 1..Len(returned) :
                 /\ returned[j].id = upstream[i].o["id"].s
                 /\ returned[j].date = Unknown

\* the successful outcome of a messages request, and what it was built from
MessagesOk == Handling("get_group_messages") /\ pc = "done" /\ response.kind = "ok"
UpstreamMessages == Items(get(data, "messages", JList(<<>>)))
Returned == response.body.messages

\* the string field `key` of `msg`, or `default` when the record has no such key
FieldOr(msg, key, default) == IF has(msg, key) THEN msg.o[key].s ELSE default
Sender(msg) == FieldOr(msg, "from_user", FieldOr(msg, "from", "Unknown"))
\* some returned message carries the id, sender and content of `msg`
ReturnedFor(msg) ==
    \E j \in 1..Len(Returned) :
      /\ Returned[j].id = FieldOr(msg, "id", "")
      /\ Returned[j].from_user = Sender(msg)
      /\ Returned[j].content = FieldOr(msg, "content", "")

\* a record with a missing or numeric timestamp whose present fields are strings
StringFields(msg) ==
    /\ IsDict(msg)
    /\ \A k \in {"id", "from", "from_user", "content"} :
         has(msg, k) => msg.o[k].t = "str"
    /\ has(msg, "timestamp") => msg.o["timestamp"].t = "int"
                                \/ (msg.o["timestamp"].t = "str"
                                    /\ msg.o["timestamp"].s \in DOMAIN IntOfStr)
LacksField(msg) ==
    \/ ~has(msg, "id")
    \/ ~has(msg, "content")
    \/ ~(has(msg, "from") \/ has(msg, "from_user"))

UpstreamGroups == Items(get(replies[2].body, "groups", JList(<<>>)))
\* positions of the upstream group list whose entry has the requested id
MatchingGroups ==
    { i \in 1..Len(UpstreamGroups) :
        get(UpstreamGroups[i], "id", JNull) = JStr(request.args.group_id) }

\* C12: in a successful messages response group_name is the name of the first
\* upstream group entry with the requested id, and null when there is none.
C12_GroupNameOfFirstMatch ==
    MessagesOk
    => IF MatchingGroups = {}
       THEN response.body.group_name = JNull
       ELSE \E i \in MatchingGroups :
              /\ \A k \in MatchingGroups : i <= k
              /\ response.body.group_name = UpstreamGroups[i].o["name"]

C12_Witness ==
    /\ MessagesOk
    /\ Cardinality(MatchingGroups) = 2
    /\ response.body.group_name = JStr("Physics 101")

\* a successful messages response for a group the upstream list does not hold
C12_WitnessNull ==
    /\ MessagesOk
    /\ Len(UpstreamGroups) > 0
    /\ MatchingGroups = {}
    /\ response.body.group_name = JNull

\* C13: no endpoint retries. A request issues at most one upstream call (two
\* on the messages route), no upstream path is called twice, and a call that
\* failed or was rejected is the last call of its request.
C13_NoRetries ==
    pc # "idle"
    => /\ Len(calls) <= (IF Handling("get_group_messages") THEN 2 ELSE 1)
       /\ Len(replies) <= Len(calls)
       /\ \A i, j \in 1..Len(calls) : i # j => calls[i].path # calls[j].path
       /\ \A i \in 1..Len(replies) :
            (FailedReply(replies[i]) \/ RejectedReply(replies[i]))
            => Len(calls) = i

\* a messages request whose first call failed, and one whose second call failed
C13_Witness ==
    /\ Handling("get_group_messages")
    /\ pc = "done"
    /\ Len(calls) = 1
    /\ replies = <<Raise("ReadTimeout")>>
C13_WitnessSecond ==
    /\ Handling("get_group_messages")
    /\ pc = "done"
    /\ Len(calls) = 2
    /\ Len(replies) = 2
    /\ RejectedReply(replies[2])

\* C14: the status route needs no authentication. Without Authorization
\* header and without API key it issues GET /api/status with no credential
\* header, answers 401 only when the upstream answered 401, and answers a
\* well-formed upstream reply with success.
C14_StatusNeedsNoAuth ==
    (Handling("get_whatsapp_status") /\ NoCredentials)
    => /\ Len(calls) = 1
       /\ calls[1].method = "GET"
       /\ calls[1].path = "/api/status"
       /\ DOMAIN calls[1].headers = {"Content-Type"}
       /\ pc = "done"
          => /\ Len(replies) = 1
             /\ (response.kind = "HTTPException" /\ response.status_code = 401)
                => /\ replies[1].kind = "response"
                   /\ replies[1].status_code = 401
                   /\ response.detail # AuthRequired.detail
             /\ (replies[1].kind = "response" /\ replies[1].status_code = 200
                 /\ IsDict(replies[1].body))
                => response.kind = "ok"

C14_Witness ==
    /\ Handling("get_whatsapp_status")
    /\ NoCredentials
    /\ pc = "done"
    /\ response.kind = "ok"
    /\ response.body.status = JStr("connected")
\* the upstream itself refuses the unauthenticated call
C14_WitnessUpstream401 ==
    /\ Handling("get_whatsapp_status")
    /\ NoCredentials
    /\ pc = "done"
    /\ response.kind = "HTTPException"
    /\ response.status_code = 401

PassThroughHandlers == {"post_passthrough", "get_passthrough"}

\* C15: a pass-through route forwards the caller's JSON body unchanged to the
\* upstream path of the same name, and on upstream success returns the
\* upstream's JSON body unchanged.
C15_PassThroughUnchanged ==
    (pc # "idle" /\ request.handler \in PassThroughHandlers)
    => /\ \A i \in 1..Len(calls) :
            /\ calls[i].path = request.path
            /\ calls[i].args = request.args
            /\ calls[i].json = request.body
            /\ calls[i].method = (IF request.handler = "post_passthrough"
                                  THEN "POST" ELSE "GET")
       /\ (/\ pc = "done"
           /\ Len(replies) = 1
           /\ replies[1].kind = "response"
           /\ is_success(replies[1].status_code)
           /\ replies[1].body.t # "malformed")
          => /\ response.kind = "ok"
             /\ response.body = replies[1].body

C15_Witness ==
    /\ Handling("post_passthrough")
    /\ pc = "done"
    /\ request.path = "/api/send"
    /\ IsDict(request.body)
    /\ calls[1].json = request.body
    /\ response.kind = "ok"
    /\ response.body = JObj([success |-> JBool(TRUE), messageId |-> JStr("ABCD")])

\* a messages request both of whose upstream calls were answered well
MessagesAnswered ==
    /\ Handling("get_group_messages")
    /\ pc = "done"
    /\ Len(replies) = 2
    /\ replies[1].kind = "response" /\ replies[1].status_code = 200
    /\ IsDict(replies[1].body)
    /\ IsArray(replies[1].body, "messages")
    /\ WellFormedReply(replies[2], TRUE)
\* positions of the upstream records that convert, and the rank of one among them
Convertible == { i \in 1..Len(UpstreamMessages) : converts(UpstreamMessages[i]) }
Rank(i) == Cardinality({ k \in Convertible : k <= i })

\* C18: item-level recovery. With an unconvertible record in the upstream
\* messages array the request still succeeds, exactly the unconvertible
\* records are dropped, and the convertible ones are returned in order.
C18_ItemLevelRecovery ==
    MessagesAnswered
    => /\ response.kind = "ok"
       /\ response.status_code = 200
       /\ Len(Returned) = Cardinality(Convertible)
       /\ response.body.count = Len(Returned)
       /\ \A i \in Convertible :
            /\ Returned[Rank(i)].id = FieldOr(UpstreamMessages[i], "id", "")
            /\ Returned[Rank(i)].from_user = Sender(UpstreamMessages[i])

\* an unconvertible record in front of a convertible one
C18_Witness ==
    /\ MessagesAnswered
    /\ Len(UpstreamMessages) = 2
    /\ ~converts(UpstreamMessages[1])
    /\ converts(UpstreamMessages[2])
    /\ response.kind = "ok"
    /\ Len(Returned) = 1
    /\ Returned[1].id = FieldOr(UpstreamMessages[2], "id", "")

\* the second call of a messages request did not deliver a usable group list
GroupsCallFailed(r) ==
    \/ FailedReply(r)
    \/ RejectedReply(r)
    \/ /\ r.kind = "response" /\ IsDict(r.body)
       /\ \E i \in 1..Len(Items(get(r.body, "groups", JList(<<>>)))) :
            LET group == Items(get(r.body, "groups", JList(<<>>)))[i]
            IN ~has(group, "id") \/ ~has(group, "name")

\* C19: name resolution is best-effort. When the messages call succeeded and
\* the groups call fails, the request still answers 200 with the fetched
\* messages and group_name null.
C19_NameResolutionBestEffort ==
    (/\ Handling("get_group_messages")
     /\ pc = "done"
     /\ Len(replies) = 2
     /\ IsDict(replies[1].body)
     /\ IsArray(replies[1].body, "messages")
     /\ GroupsCallFailed(replies[2]))
    => /\ response.kind = "ok"
       /\ response.status_code = 200
       /\ response.body.group_name = JNull
       /\ Len(Returned) = Cardinality(Convertible)

MessagesPath == "/api/messages/{group_id}?limit={limit}"

\* C20: the two upstream calls of a messages request are sequential. The
\* groups call is issued only after the messages call returned with status 200,
\* at most one call is in flight, and after a failed or rejected messages call
\* the groups call is never issued.
C20_CallsSequential ==
    Handling("get_group_messages")
    => /\ Len(calls) <= Len(replies) + 1
       /\ Len(calls) >= 1 => calls[1].path = MessagesPath
       /\ Len(calls) >= 2
          => /\ Len(calls) = 2
             /\ calls[2].path = "/api/groups"
             /\ replies[1].kind = "response"
             /\ replies[1].status_code = 200
       /\ (Len(replies) >= 1
           /\ (replies[1].kind = "raise" \/ replies[1].status_code # 200))
          => Len(calls) = 1
       /\ pc = "await_messages" => Len(calls) = 1 /\ replies = <<>>
       /\ pc = "await_group_name" => Len(calls) = 2 /\ Len(replies) = 1

\* the groups call in flight after the messages call has returned
C20_Witness ==
    /\ Handling("get_group_messages")
    /\ pc = "await_group_name"
    /\ Len(calls) = 2
    /\ calls[2].path = "/api/groups"
    /\ Len(replies) = 1
    /\ replies[1].status_code = 200
\* a rejected messages call ends the request with one call issued
C20_WitnessRejected ==
    /\ Handling("get_group_messages")
    /\ pc = "done"
    /\ Len(calls) = 1
    /\ Len(replies) = 1
    /\ RejectedReply(replies[1])

\* the repeated request has been answered
SecondDone == pc = "done" /\ last # NoLast
\* a status answer built from an upstream payload without timestamp
StampedByGateway ==
    /\ Handling("get_whatsapp_status")
    /\ response.kind = "ok"
    /\ ~has(replies[1].body, "timestamp")

\* C16 as claimed: the same read-only request issued twice against an
\* unchanged upstream yields identical results, also when the upstream status
\* payload omits timestamp.
C16_RepeatedRequestIdentical ==
    SecondDone => response = last.response

\* C16 amended: the two results are identical, except that a status result
\* built from an upstream payload without timestamp carries the gateway's
\* time of each request in timestamp while agreeing in every other field.
C16_RepeatedRequestIdenticalButClock ==
    SecondDone
    => /\ replies = last.replies
       /\ IF StampedByGateway
          THEN /\ last.response.kind = "ok"
               /\ [response.body EXCEPT !.timestamp = JNull]
                  = [last.response.body EXCEPT !.timestamp = JNull]
               /\ response.body.timestamp \in { JStr(now) : now \in Clock }
          ELSE response = last.response

\* the two status results differ in timestamp only
C16_Witness ==
    /\ SecondDone
    /\ StampedByGateway
    /\ has(replies[1].body, "phone")
    /\ response.body.timestamp # last.response.body.timestamp
    /\ response.body.phone = last.response.body.phone
\* the same messages result twice
C16_WitnessMessages ==
    /\ SecondDone
    /\ Handling("get_group_messages")
    /\ response.kind = "ok"
    /\ Len(response.body.messages) = 1
    /\ response.body.group_name # JNull
    /\ response = last.response

StatusAnswered ==
    /\ Handling("get_whatsapp_status")
    /\ pc = "done"
    /\ replies[1].kind = "response"
    /\ is_success(replies[1].status_code)
    /\ IsDict(replies[1].body)
\* the upstream's value of `key`, or `default` when the payload has no such key
Copied(key, default) ==
    IF key \in DOMAIN replies[1].body.o THEN replies[1].body.o[key] ELSE default

\* C21: on upstream success the status response copies success, status, phone
\* and timestamp from the upstream payload, with true, "unknown", null and
\* the gateway's current time for a missing field; a missing field never makes
\* the request fail.
C21_StatusCopiedWithDefaults ==
    StatusAnswered
    => /\ response.kind = "ok"
       /\ response.status_code = 200
       /\ response.body.success = Copied("success", JBool(TRUE))
       /\ response.body.status = Copied("status", JStr("unknown"))
       /\ response.body.phone = Copied("phone", JNull)
       /\ IF has(replies[1].body, "timestamp")
          THEN response.body.timestamp = replies[1].body.o["timestamp"]
          ELSE response.body.timestamp \in { JStr(now) : now \in Clock }

\* the empty payload answered with all four defaults
C21_Witness ==
    /\ StatusAnswered
    /\ DOMAIN replies[1].body.o = {}
    /\ response.kind = "ok"
    /\ response.body.success = JBool(TRUE)
    /\ response.body.status = JStr("unknown")
    /\ response.body.phone = JNull
    /\ response.body.timestamp = JStr("now-2")

\* a groups request whose upstream call was answered with a 200 JSON object
GroupsAnswered ==
    /\ Handling("get_whatsapp_groups")
    /\ pc = "done"
    /\ Len(replies) = 1
    /\ replies[1].kind = "response"
    /\ replies[1].status_code = 200
    /\ IsDict(replies[1].body)
    /\ IsArray(replies[1].body, "groups")
\* the upstream groups array of a groups request
UpstreamGroupList == Items(get(replies[1].body, "groups", JList(<<>>)))
Unmappable(group) ==
    ~has(group, "id") \/ ~has(group, "name") \/ ~has(group, "participants")

\* C22: a successful groups response has one entry per element of the
\* upstream groups array, in upstream order, with id, name and participants
\* copied and success passed through (true when absent); when an upstream
\* element lacks id, name or participants the request fails, no partial list
\* is returned.
C22_GroupsAllOrNothing ==
    GroupsAnswered
    => IF \E i \in 1..Len(UpstreamGroupList) : Unmappable(UpstreamGroupList[i])
       THEN response.kind = "HTTPException"
       ELSE /\ response.kind = "ok"
            /\ response.body.success = Copied("success", JBool(TRUE))
            /\ Len(response.body.groups) = Len(UpstreamGroupList)
            /\ \A i \in 1..Len(UpstreamGroupList) :
                 /\ response.body.groups[i].id = UpstreamGroupList[i].o["id"].s
                 /\ response.body.groups[i].name = UpstreamGroupList[i].o["name"].s
                 /\ response.body.groups[i].participants
                    = UpstreamGroupList[i].o["participants"].n

\* two upstream groups returned in upstream order
C22_Witness ==
    /\ GroupsAnswered
    /\ response.kind = "ok"
    /\ Len(UpstreamGroupList) = 2
    /\ response.body.groups[1].name = "Chemistry"
    /\ response.body.groups[2].name = "Physics 101"
    /\ response.body.success = JBool(FALSE)
\* an element without participants fails the request
C22_WitnessFailed ==
    /\ GroupsAnswered
    /\ Len(UpstreamGroupList) = 2
    /\ ~Unmappable(UpstreamGroupList[1])
    /\ ~has(UpstreamGroupList[2], "participants")
    /\ response.kind = "HTTPException"
    /\ response.status_code = 503

\* all requests of the process: the running one and the suspended ones
Contexts == <<Current>> \o others

\* the header set a request carrying `authorization` sends when it runs alone
HeadersAlone(authorization) ==
    IF authorization # None /\ authorization # ""
    THEN [h \in {"Content-Type", "Authorization"} |->
            IF h = "Authorization" THEN authorization ELSE "application/json"]
    ELSE IF WHATSAPP_API_KEY # ""
    THEN [h \in {"Content-Type", "x-api-key"} |->
            IF h = "x-api-key" THEN WHATSAPP_API_KEY ELSE "application/json"]
    ELSE [h \in {"Content-Type"} |-> "application/json"]

\* the outcome of the finished request `c` when it runs alone and the upstream
\* answers it with the replies `c` received
OutcomeAlone(c) ==
    IF c.request.handler = "get_group_messages"
    THEN IF c.replies = <<>> THEN AuthRequired
         ELSE IF Len(c.replies) = 1 THEN messages_first_outcome(c.replies[1])
         ELSE messages_outcome(c.replies[1].body, c.request.args.group_id,
                               c.replies[2])
    ELSE IF c.replies = <<>> THEN HTTPException(503, <<str("JSONDecodeError")>>)
         ELSE forward_outcome(c.replies[1])

\* C23: with several requests in flight, in every interleaving each request's
\* outbound headers and its response are those of the request run alone
\* against the same upstream replies; no call carries another caller's
\* Authorization value, and the upstream base URL and API key stay as
\* configured.
C23_RequestsIsolated ==
    /\ WHATSAPP_SERVICE_URL = DefaultServiceUrl
    /\ \A k \in 1..Len(Contexts) :
         LET c == Contexts[k] IN
         /\ \A i \in 1..Len(c.calls) :
              /\ c.calls[i].headers = HeadersAlone(c.request.authorization)
              /\ c.calls[i].url = DefaultServiceUrl
         /\ c.pc = "done" => c.response = OutcomeAlone(c)
         /\ c.pc = "await_group_name" => c.data = c.replies[1].body

\* two callers with different tokens, both in flight, one already answered by
\* the upstream for its first call
C23_Witness ==
    /\ Len(others) >= 1
    /\ pc = "await_group_name"
    /\ others[1].pc = "await_messages"
    /\ request.authorization = "Bearer user-token"
    /\ others[1].request.authorization = "Bearer other-token"
    /\ calls[2].headers["Authorization"] = "Bearer user-token"
    /\ others[1].calls[1].headers["Authorization"] = "Bearer other-token"
\* two interleaved messages requests finished with different results
C23_WitnessDone ==
    /\ Len(others) >= 1
    /\ pc = "done" /\ others[1].pc = "done"
    /\ response.kind = "ok" /\ others[1].response.kind = "ok"
    /\ request.handler = "get_group_messages"
    /\ others[1].request.handler = "get_group_messages"
    /\ response.body.messages # others[1].response.body.messages

\* C24: every handler invocation ends with exactly one outcome: a success
\* response, or an HTTP error whose status is 401, the status code of an
\* upstream reply, or 503. No outcome exists before the handler ends.
C24_OneOutcomePerRequest ==
    /\ pc # "done" => response = NoResponse
    /\ pc = "done"
       => \/ /\ response.kind = "ok"
             /\ response.status_code = 200
          \/ /\ response.kind = "HTTPException"
             /\ \/ response.status_code = 401 /\ calls = <<>>
                \/ response.status_code = 503
                \/ \E i \in 1..Len(replies) :
                     /\ replies[i].kind = "response"
                     /\ replies[i].status_code = response.status_code

\* a payload of an unexpected type ends the groups request with 503
C24_Witness ==
    /\ Handling("get_whatsapp_groups")
    /\ pc = "done"
    /\ replies = <<Response(200, JObj([groups |-> JNull]))>>
    /\ response.kind = "HTTPException"
    /\ response.status_code = 503
\* a caller body that is not JSON ends a pass-through request with 503
C24_WitnessCaller ==
    /\ Handling("post_passthrough")
    /\ pc = "done"
    /\ request.body.t = "malformed"
    /\ response.kind = "HTTPException"
    /\ response.status_code = 503

\* C25: an Authorization header that is present but empty is treated like an
\* absent one on every route: it is never forwarded, the API key is sent as
\* x-api-key when configured, and on the groups and messages routes the request
\* ends with 401 and no upstream call when no key is configured.
C25_EmptyAuthorizationAsAbsent ==
    (pc # "idle" /\ request.authorization = "")
    => /\ \A i \in 1..Len(calls) :
            /\ "Authorization" \notin DOMAIN calls[i].headers
            /\ IF WHATSAPP_API_KEY # ""
               THEN /\ DOMAIN calls[i].headers = {"Content-Type", "x-api-key"}
                    /\ calls[i].headers["x-api-key"] = WHATSAPP_API_KEY
               ELSE DOMAIN calls[i].headers = {"Content-Type"}
       /\ (request.handler \in ListHandlers /\ WHATSAPP_API_KEY = "")
          => /\ pc = "done"
             /\ calls = <<>>
             /\ response = AuthRequired
       /\ (request.handler \notin ListHandlers \/ WHATSAPP_API_KEY # "")
          => (request.body.t = "malformed" \/ Len(calls) >= 1)

\* the empty header on the messages route without a key, and with one
C25_Witness ==
    /\ Handling("get_group_messages")
    /\ request.authorization = ""
    /\ WHATSAPP_API_KEY = ""
    /\ response = AuthRequired
C25_WitnessKey ==
    /\ Handling("post_passthrough")
    /\ request.authorization = ""
    /\ Len(calls) = 1
    /\ calls[1].headers["x-api-key"] = "admin-key"

StaticHandlers == {"root", "health_check"}
\* a response of a static route with the key's boolean and the timestamp set
\* to fixed values
Masked(body) ==
    IF request.handler = "root"
    THEN [body EXCEPT !.whatsapp.api_key_configured = TRUE, !.timestamp = "masked"]
    ELSE [body EXCEPT !.api_key_present = TRUE, !.timestamp = "masked"]
\* what the static routes answer under every configuration, masked alike
PublicRoot ==
    [message |-> "Academic Manager API - Running!",
     status |-> "Active",
     version |-> "2.0.0",
     features |-> RootFeatures,
     whatsapp |-> [service_url |-> DefaultServiceUrl, api_key_configured |-> TRUE],
     endpoints |-> RootEndpoints,
     timestamp |-> "masked"]
PublicHealth ==
    [status |-> "healthy",
     service |-> "Academic Manager API",
     whatsapp_service |-> DefaultServiceUrl,
     api_key_present |-> TRUE,
     timestamp |-> "masked"]

\* C26: GET / and GET /health never contact the upstream and never disclose
\* the API key: timestamp aside, the response is the same under every
\* configured key, the key showing only as the boolean api_key_configured /
\* api_key_present.
C26_StaticRoutesHideKey ==
    (pc # "idle" /\ request.handler \in StaticHandlers)
    => /\ pc = "done"
       /\ calls = <<>>
       /\ replies = <<>>
       /\ response.kind = "ok"
       /\ response.status_code = 200
       /\ IF request.handler = "root"
          THEN /\ Masked(response.body) = PublicRoot
               /\ response.body.whatsapp.api_key_configured = (WHATSAPP_API_KEY # "")
          ELSE /\ Masked(response.body) = PublicHealth
               /\ response.body.api_key_present = (WHATSAPP_API_KEY # "")

\* the health route under the second of two non-empty keys
C26_Witness ==
    /\ Handling("health_check")
    /\ WHATSAPP_API_KEY = "other-key"
    /\ response.kind = "ok"
    /\ response.body.api_key_present = TRUE
C26_WitnessRoot ==
    /\ Handling("root")
    /\ WHATSAPP_API_KEY = ""
    /\ response.kind = "ok"
    /\ response.body.whatsapp.api_key_configured = FALSE

\* C27: on a POST pass-through route a caller body that is missing or not
\* valid JSON ends the request with 503 before any upstream call; the upstream
\* is contacted only with a body that was parsed.
C27_UnparsableBody503NoCall ==
    Handling("post_passthrough")
    => /\ request.body.t = "malformed"
          => /\ pc = "done"
             /\ calls = <<>>
             /\ replies = <<>>
             /\ response.kind = "HTTPException"
             /\ response.status_code = 503
       /\ \A i \in 1..Len(calls) :
            /\ request.body.t # "malformed"
            /\ calls[i].json = request.body

\* a request without body on POST /api/send-media
C27_Witness ==
    /\ Handling("post_passthrough")
    /\ request.path = "/api/send-media"
    /\ request.body = Malformed("")
    /\ pc = "done"
    /\ calls = <<>>
    /\ response.status_code = 503

\* the returned message `m` carries the id, sender and content of the
\* upstream record `msg`
ComesFrom(m, msg) ==
    /\ IsDict(msg)
    /\ \A k \in {"id", "from", "from_user", "content"} :
         has(msg, k) => msg.o[k].t = "str"
    /\ m.id = FieldOr(msg, "id", "")
    /\ m.from_user = Sender(msg)
    /\ m.content = FieldOr(msg, "content", "")

\* C28: the messages of a successful messages response are an
\* order-preserving subsequence of the upstream messages array: each returned
\* message comes from an upstream record of its own, and returned messages
\* stand in the order of their records.
C28_ReturnedIsSubsequence ==
    MessagesOk
    => \E f \in [1..Len(Returned) -> 1..Len(UpstreamMessages)] :
         /\ \A j \in 1..Len(Returned) : ComesFrom(Returned[j], UpstreamMessages[f[j]])
         /\ \A j, k \in 1..Len(Returned) : j < k => f[j] < f[k]

\* two records returned in upstream order, the wrong order not being a match
C28_Witness ==
    /\ MessagesOk
    /\ Len(UpstreamMessages) = 2
    /\ Len(Returned) = 2
    /\ ComesFrom(Returned[1], UpstreamMessages[1])
    /\ ComesFrom(Returned[2], UpstreamMessages[2])
    /\ ~ComesFrom(Returned[1], UpstreamMessages[2])

\* how often, and where first, the event `e` stands in the sequence `events`
Count(events, e) == Cardinality({ i \in 1..Len(events) : events[i] = e })
First(events, e) == CHOOSE i \in 1..Len(events) :
                      events[i] = e /\ \A j \in 1..(i - 1) : events[j] # e

\* C29: for every use of get_db the session opened at entry is closed exactly
\* once when the generator finishes, on the normal and on the failing path;
\* rollback is invoked exactly when an exception was thrown in after the
\* yield, before close, and then an exception reaches the caller: the thrown
\* one, or that of a failing rollback.
C29_SessionLifecycle ==
    \A s \in 1..MaxSessions :
      LET u == sessions[s] IN
      /\ Count(u.events, "SessionLocal") = (IF u.pc = "unused" THEN 0 ELSE 1)
      /\ Count(u.events, "close") = (IF u.pc = "finished" THEN 1 ELSE 0)
      /\ u.pc = "finished"
         => /\ u.events[Len(u.events)] = "close"
            /\ Count(u.events, "rollback") = (IF u.thrown # "none" THEN 1 ELSE 0)
            /\ u.thrown # "none"
               => /\ First(u.events, "rollback") < First(u.events, "close")
                  /\ u.raised # "none"
                  /\ u.rollback_exc = "none" => u.raised = u.thrown
            /\ u.thrown = "none" => u.raised = "none"

\* one use ended normally and one with an exception
C29_Witness ==
    /\ sessions[1].pc = "finished"
    /\ sessions[1].thrown = "none"
    /\ sessions[1].events = <<"SessionLocal", "log_database_operation", "close">>
    /\ sessions[2].pc = "finished"
    /\ sessions[2].thrown = "IntegrityError"
    /\ sessions[2].raised = "IntegrityError"
    /\ sessions[2].events = <<"SessionLocal", "log_error", "rollback", "close">>

\* C30: after init_db returns without error, with the models imported, the
\* users and system_settings tables are among the tables created: the models
\* are registered on the metadata init_db creates from.
C30_InitDbCreatesModelTables ==
    (init_result = "returned" /\ UserBase \in DOMAIN metadata)
    => /\ UserTables \subseteq metadata[DatabaseBase]
       /\ UserTables \subseteq tables

====
